---- MODULE Spec2Model ----
(***************************************************************************)
(* A model of the read-only SQLite file reader in src/app: the page        *)
(* header decoder (models.py), the page decoders (pages.py), the record    *)
(* codec (record_parser.py), the statement parser (statement_parser.py)    *)
(* and the walker and command dispatch (main.py).                          *)
(***************************************************************************)
EXTENDS Integers, Sequences, FiniteSets, TLC

(***************************************************************************)
(* Bounds of the model.                                                    *)
(***************************************************************************)
\* entries (keys) of the index B-tree under seek
MaxEntries == 4
\* values in one record
MaxValues == 2
\* rows of sqlite_schema
MaxSchemaRows == 3
\* rows of the table a statement reads
MaxRows == 2
\* pages of the database file that hold the B-tree under scan
NPages == 3
\* cells on one B-tree page
MaxCells == 2

(***************************************************************************)
(* Program constants.                                                      *)
(***************************************************************************)
LEAF_TABLE == 13
INTERIOR_TABLE == 5
LEAF_INDEX == 10
INTERIOR_INDEX == 2
\* SQLITE_SCHEMA_TABLE.root_page; the scan below starts at this page
ROOT_PAGE == 1

VARIABLES
    \* the B-tree walker (main.py, pages.py)
    pages,            \* the database file: page number -> the page's content
    stack,            \* call stack of collect_records_from_interior_or_leaf_page
    records,          \* the value the walker returns
    target,           \* the value an index seek looks for
    \* Page.parse_unknown_type_from (pages.py, models.py)
    page_type_byte,   \* the first byte of the page header
    page_class,       \* the class of the page object returned, or "none"
    \* parse_record (record_parser.py)
    stream,           \* the bytes of the record, from its header_size varint on
    number_of_values, \* the argument of parse_record
    position,         \* the position of the stream
    values,           \* the list parse_record returns
    \* the command line (main.py, statement_parser.py)
    argv,             \* sys.argv[2], tokenized
    sqlite_schema,    \* the rows a scan of page 1 returns
    table_rows,       \* root page -> the rows a scan from it returns, or "raise"
    table,            \* the local variable table of execute_statement
    rows,             \* the local variable rows of execute_statement
    stdout,           \* the lines printed so far
    pc,               \* where the invocation stands
    \* one page read at byte offsets (pages.py, models.py)
    number,           \* Page.number
    page_size,        \* DatabaseHeader.page_size, kept as Page.size
    cell_pointers,    \* the cell pointers stored on the page
    payload_size,     \* the payload size a cell declares
    file_position,    \* the position of database_file
    reads,            \* the reads made so far: what was read and where
    header_size,      \* PageHeader.size of the parsed header, 0 before
    right_most_read,  \* whether the header's right-most pointer was read
    \* how the operation under study ended: "running", "returned" or "raised"
    outcome

walkerVars == <<pages, stack, records, target>>

headerVars == <<page_type_byte, page_class>>

recordVars == <<stream, number_of_values, position, values>>

cliVars == <<argv, sqlite_schema, table_rows, table, rows, stdout, pc>>

layoutVars ==
    <<number, page_size, cell_pointers, payload_size, file_position, reads,
      header_size, right_most_read>>

vars == <<walkerVars, headerVars, recordVars, cliVars, layoutVars, outcome>>

\* the parts of the state an operation does not touch
IdleWalker == pages = <<>> /\ stack = <<>> /\ records = <<>> /\ target = 0

IdleHeader == page_type_byte = 0 /\ page_class = "none"

IdleRecord == stream = <<>> /\ number_of_values = 0 /\ position = 0 /\ values = <<>>

IdleCli ==
    /\ argv = <<>> /\ sqlite_schema = <<>> /\ table_rows = <<>> /\ table = <<>>
    /\ rows = <<>> /\ stdout = <<>> /\ pc = "idle"

IdleLayout ==
    /\ number = 0 /\ page_size = 0 /\ cell_pointers = <<>> /\ payload_size = 0
    /\ file_position = 0 /\ reads = <<>> /\ header_size = 0 /\ right_most_read = FALSE

(***************************************************************************)
(* Small helpers.                                                          *)
(***************************************************************************)
Range(s) == {s[i] : i \in DOMAIN s}

SeqsUpTo(S, n) == UNION {[1..k -> S] : k \in 0..n}

PageNumbers == 1..NPages

(***************************************************************************)
(* PageHeader (models.py).                                                 *)
(***************************************************************************)
is_leaf_table_btree_page(page_type) == page_type = LEAF_TABLE

is_interior_table_btree_page(page_type) == page_type = INTERIOR_TABLE

\* PageHeader.parse_from: the header is returned only when exactly one of the
\* two table predicates holds; otherwise the raise statement runs (and the
\* lookup in page_type_description raises in its turn).
PageHeaderParses(page_type) ==
    (is_leaf_table_btree_page(page_type) /\ ~is_interior_table_btree_page(page_type))
    \/ (~is_leaf_table_btree_page(page_type) /\ is_interior_table_btree_page(page_type))

(***************************************************************************)
(* The database files of the table scan.  Page p points only to pages      *)
(* after p, so the pages reachable from any root form a finite acyclic     *)
(* structure; a page may be reached along more than one path.              *)
(***************************************************************************)
FirstRowid(p) == (p - 1) * MaxCells

\* the leaf-table pages of p: no cell, one cell, MaxCells cells with ascending
\* rowids, or the same cells in descending order (which no well-formed file
\* holds)
LeafTablePages(p) ==
    {[page_type |-> LEAF_TABLE,
      cells |-> [i \in 1..k |-> [rowid |-> FirstRowid(p) + i]],
      right_most_pointer |-> 0] : k \in {0, 1, MaxCells}}
    \cup
    {[page_type |-> LEAF_TABLE,
      cells |-> [i \in 1..MaxCells |-> [rowid |-> FirstRowid(p) + MaxCells + 1 - i]],
      right_most_pointer |-> 0]}

\* sequences of at most n distinct elements of S
DistinctSeqsUpTo(S, n) ==
    {c \in SeqsUpTo(S, n) : \A i, j \in DOMAIN c : i # j => c[i] # c[j]}

\* an interior-table page of p: its cells point to distinct later pages, the
\* right-most pointer to any later page; the keys are filled in by WithKeys
InteriorTablePages(p) ==
    {[page_type |-> INTERIOR_TABLE,
      cells |-> [i \in DOMAIN c |-> [left_child_pointer |-> c[i], key |-> 0]],
      right_most_pointer |-> r] :
        c \in DistinctSeqsUpTo((p + 1)..NPages, MaxCells), r \in (p + 1)..NPages}

\* a page of an index B-tree met inside a table B-tree
StrayIndexPage == [page_type |-> LEAF_INDEX, cells |-> <<>>, right_most_pointer |-> 0]

RECURSIVE TableFilesFrom(_, _)
TableFilesFrom(p, leaves) ==
    IF p > NPages THEN {<<>>}
    ELSE {<<x>> \o rest :
            x \in (LeafTablePages(p) \cap leaves) \cup InteriorTablePages(p) \cup {StrayIndexPage},
            rest \in TableFilesFrom(p + 1, leaves)}

Max(S) == IF S = {} THEN 0 ELSE CHOOSE x \in S : \A y \in S : y <= x

\* the rowids stored in the leaves below page p of file f
RECURSIVE RowidsUnder(_, _)
RowidsUnder(f, p) ==
    IF f[p].page_type = LEAF_TABLE THEN {f[p].cells[i].rowid : i \in DOMAIN f[p].cells}
    ELSE IF f[p].page_type = INTERIOR_TABLE
    THEN UNION ({RowidsUnder(f, f[p].cells[i].left_child_pointer) : i \in DOMAIN f[p].cells}
                \cup {RowidsUnder(f, f[p].right_most_pointer)})
    ELSE {}

\* the writer of the file stores, in each interior cell, the largest rowid of
\* the cell's left subtree
WithKeys(f) ==
    [p \in DOMAIN f |->
        IF f[p].page_type = INTERIOR_TABLE
        THEN [f[p] EXCEPT !.cells =
                [i \in DOMAIN f[p].cells |->
                    [f[p].cells[i] EXCEPT !.key =
                        Max(RowidsUnder(f, f[p].cells[i].left_child_pointer))]]]
        ELSE f[p]]

AllLeafTablePages == UNION {LeafTablePages(p) : p \in PageNumbers}

TableFiles == {WithKeys(f) : f \in TableFilesFrom(1, AllLeafTablePages)}

\* the same page structures with one cell on every leaf
OneCellLeaves == {pg \in AllLeafTablePages : Len(pg.cells) = 1}

TableShapes == {WithKeys(f) : f \in TableFilesFrom(1, OneCellLeaves)}

(***************************************************************************)
(* read_table_rows (main.py): the recursion of                             *)
(* collect_records_from_interior_or_leaf_page, one frame per call.         *)
(***************************************************************************)
\* LeafTableBTreePage.parse_records_from (pages.py): one record per cell
\* pointer, in cell-pointer order
parse_records_from(page) == [i \in DOMAIN page.cells |-> [rowid |-> page.cells[i].rowid]]

\* InteriorTableBTreePage.parse_cells_from (pages.py)
parse_cells_from(page) ==
    [i \in DOMAIN page.cells |->
        [left_child_pointer |-> page.cells[i].left_child_pointer,
         key |-> page.cells[i].key]]

\* a call of collect_records_from_interior_or_leaf_page(database_file, page_number)
CallFrame(page_number) ==
    [page_number |-> page_number, at |-> "call", cells |-> <<>>,
     right_most_pointer |-> 0, index |-> 1, records |-> <<>>]

AddRecordsInFront(acc, returned) == returned \o acc

\* records += <the callee's return value>
AddRecords(acc, returned) == acc \o returned

\* the return statement of the frame on top of the stack
Return(returned) ==
    IF Len(stack) = 1
    THEN /\ stack' = <<>>
         /\ records' = returned
         /\ outcome' = "returned"
    ELSE LET caller == stack[Len(stack) - 1] IN
         /\ stack' = SubSeq(stack, 1, Len(stack) - 2)
                     \o <<[caller EXCEPT !.records = AddRecords(caller.records, returned),
                                         !.index = caller.index + 1]>>
         /\ UNCHANGED <<records, outcome>>

\* what no step of the table scan changes
ScanFrame == UNCHANGED <<pages, target, headerVars, recordVars, cliVars, layoutVars>>

Top == stack[Len(stack)]

Running == outcome = "running" /\ stack # <<>>

\* main.py 199-201: a leaf page returns its records
ReturnLeafRecords ==
    /\ Running /\ Top.at = "call"
    /\ PageHeaderParses(pages[Top.page_number].page_type)
    /\ is_leaf_table_btree_page(pages[Top.page_number].page_type)
    /\ Return(parse_records_from(pages[Top.page_number]))
    /\ ScanFrame

\* main.py 202-205: an interior page parses its cells and starts the loop
EnterInterior ==
    /\ Running /\ Top.at = "call"
    /\ PageHeaderParses(pages[Top.page_number].page_type)
    /\ is_interior_table_btree_page(pages[Top.page_number].page_type)
    /\ stack' = [stack EXCEPT ![Len(stack)] =
                    [Top EXCEPT !.at = "loop",
                                !.cells = parse_cells_from(pages[Top.page_number]),
                                !.right_most_pointer = pages[Top.page_number].right_most_pointer]]
    /\ UNCHANGED <<records, outcome>>
    /\ ScanFrame

\* main.py 197: Page.parse_unknown_type_from raises, and nothing catches it
RaiseInvalidPage ==
    /\ Running /\ Top.at = "call"
    /\ ~PageHeaderParses(pages[Top.page_number].page_type)
    /\ outcome' = "raised"
    /\ stack' = <<>>
    /\ UNCHANGED records
    /\ ScanFrame

LeftChildIsSelf(frame) == frame.page_number

\* the page the loop of main.py 207-208 recurses into
LeftChild(frame) == frame.cells[frame.index].left_child_pointer

\* main.py 207-208: recurse into the next cell's left child
DescendLeft ==
    /\ Running /\ Top.at = "loop"
    /\ Top.index <= Len(Top.cells)
    /\ stack' = Append(stack, CallFrame(LeftChild(Top)))
    /\ UNCHANGED <<records, outcome>>
    /\ ScanFrame

\* main.py 210: after the loop, recurse into the right-most pointer
DescendRightMost ==
    /\ Running /\ Top.at = "loop"
    /\ Top.index = Len(Top.cells) + 1
    /\ stack' = Append(stack, CallFrame(Top.right_most_pointer))
    /\ UNCHANGED <<records, outcome>>
    /\ ScanFrame

\* main.py 212: return records
ReturnInteriorRecords ==
    /\ Running /\ Top.at = "loop"
    /\ Top.index = Len(Top.cells) + 2
    /\ Return(Top.records)
    /\ ScanFrame

InitScan ==
    /\ pages \in TableFiles
    /\ stack = <<CallFrame(ROOT_PAGE)>>
    /\ records = <<>>
    /\ target = 0
    /\ outcome = "running"
    /\ IdleHeader /\ IdleRecord /\ IdleCli /\ IdleLayout

NextScan ==
    \/ ReturnLeafRecords
    \/ EnterInterior
    \/ RaiseInvalidPage
    \/ DescendLeft
    \/ DescendRightMost
    \/ ReturnInteriorRecords

SpecScan == InitScan /\ [][NextScan]_vars

\* the scan under the scheduling of a sequential program: a step that can be
\* taken is taken
InitFairScan ==
    /\ pages \in TableShapes
    /\ stack = <<CallFrame(ROOT_PAGE)>>
    /\ records = <<>>
    /\ target = 0
    /\ outcome = "running"
    /\ IdleHeader /\ IdleRecord /\ IdleCli /\ IdleLayout

FairSpecScan == InitFairScan /\ [][NextScan]_vars /\ WF_vars(NextScan)

(***************************************************************************)
(* What the scan is meant to return.                                       *)
(***************************************************************************)
\* no page below p is rejected by the header parser
RECURSIVE Scannable(_, _)
Scannable(f, p) ==
    \/ f[p].page_type = LEAF_TABLE
    \/ /\ f[p].page_type = INTERIOR_TABLE
       /\ \A i \in DOMAIN f[p].cells : Scannable(f, f[p].cells[i].left_child_pointer)
       /\ Scannable(f, f[p].right_most_pointer)

RECURSIVE Concat(_)
Concat(ss) == IF ss = <<>> THEN <<>> ELSE Head(ss) \o Concat(Tail(ss))

\* the leaf records below p, depth first and left to right
RECURSIVE DepthFirst(_, _)
DepthFirst(f, p) ==
    IF f[p].page_type = LEAF_TABLE
    THEN [i \in DOMAIN f[p].cells |-> [rowid |-> f[p].cells[i].rowid]]
    ELSE IF f[p].page_type = INTERIOR_TABLE
    THEN Concat([i \in DOMAIN f[p].cells |-> DepthFirst(f, f[p].cells[i].left_child_pointer)])
         \o DepthFirst(f, f[p].right_most_pointer)
    ELSE <<>>

\* a table B-tree as SQLite writes it: rowids ascend within a leaf, and each
\* interior key is at least every rowid of its left subtree and below every
\* rowid of the subtrees after it
RECURSIVE WellFormedTable(_, _)
WellFormedTable(f, p) ==
    \/ /\ f[p].page_type = LEAF_TABLE
       /\ \A i, j \in DOMAIN f[p].cells : i < j => f[p].cells[i].rowid < f[p].cells[j].rowid
    \/ /\ f[p].page_type = INTERIOR_TABLE
       /\ WellFormedTable(f, f[p].right_most_pointer)
       /\ \A i \in DOMAIN f[p].cells :
            /\ WellFormedTable(f, f[p].cells[i].left_child_pointer)
            /\ \A r \in RowidsUnder(f, f[p].cells[i].left_child_pointer) : r <= f[p].cells[i].key
            /\ \A r \in RowidsUnder(f, f[p].right_most_pointer) : r > f[p].cells[i].key
            /\ \A j \in DOMAIN f[p].cells :
                 i < j => \A r \in RowidsUnder(f, f[p].cells[j].left_child_pointer) :
                            r > f[p].cells[i].key

StrictlyIncreasing(rs) == \A i, j \in DOMAIN rs : i < j => rs[i].rowid < rs[j].rowid

\* the distance of page p from the leaves
RECURSIVE Height(_, _)
Height(f, p) ==
    IF f[p].page_type = INTERIOR_TABLE
    THEN 1 + Max({Height(f, f[p].cells[i].left_child_pointer) : i \in DOMAIN f[p].cells}
                 \cup {Height(f, f[p].right_most_pointer)})
    ELSE 0

\* C1: when read_table_rows returns, it returns the leaf records below the
\* root depth first and left to right (leaf cells in cell-pointer order, the
\* left children in cell order, then the right-most pointer), whatever the
\* interior keys are; on a well-formed table B-tree every rowid below the
\* root is returned once and the rowids are strictly increasing.
C1_FullScanOrder ==
    outcome = "returned" =>
        /\ records = DepthFirst(pages, ROOT_PAGE)
        /\ WellFormedTable(pages, ROOT_PAGE) =>
             /\ StrictlyIncreasing(records)
             /\ {records[i].rowid : i \in DOMAIN records} = RowidsUnder(pages, ROOT_PAGE)

C1_Witness ==
    /\ outcome = "returned"
    /\ pages[ROOT_PAGE].page_type = INTERIOR_TABLE
    /\ Len(pages[ROOT_PAGE].cells) >= 1
    /\ WellFormedTable(pages, ROOT_PAGE)
    /\ Len(records) >= 2 * MaxCells

StackDescends ==
    \A i \in 1..(Len(stack) - 1) :
        Height(pages, stack[i + 1].page_number) < Height(pages, stack[i].page_number)

\* C7: the scan of a finite acyclic page structure ends (it returns or it
\* raises), and every call on the stack is on a page strictly closer to a
\* leaf than its caller's page.
C7_ScanTerminates == [](StackDescends) /\ <>(outcome # "running")

C7_Witness ==
    /\ outcome = "returned"
    /\ Height(pages, ROOT_PAGE) >= 2
    /\ Len(records) >= 1

(***************************************************************************)
(* Page.parse_unknown_type_from (pages.py) over PageHeader.parse_from      *)
(* (models.py): from the first byte of a page header to a page object.     *)
(***************************************************************************)
Bytes == 0..(2^8 - 1)

\* the class of the object Page.parse_unknown_type_from returns, or "raise".
\* The branches for the two index kinds (pages.py 30-33) come after the
\* header has been parsed, so only for page types 5 and 13.
parse_unknown_type_from(t) ==
    IF ~PageHeaderParses(t) THEN "raise"
    ELSE IF is_leaf_table_btree_page(t) THEN "LeafTableBTreePage"
    ELSE IF is_interior_table_btree_page(t) THEN "InteriorTableBTreePage"
    ELSE "raise"

HeaderFrame == UNCHANGED <<page_type_byte, walkerVars, recordVars, cliVars, layoutVars>>

\* pages.py 26-33: a page object is returned
ParsePageReturns ==
    /\ outcome = "running" /\ pc = "header"
    /\ parse_unknown_type_from(page_type_byte) # "raise"
    /\ page_class' = parse_unknown_type_from(page_type_byte)
    /\ outcome' = "returned"
    /\ HeaderFrame

\* models.py 73-74, pages.py 35: an exception leaves the call
ParsePageRaises ==
    /\ outcome = "running" /\ pc = "header"
    /\ parse_unknown_type_from(page_type_byte) = "raise"
    /\ page_class' = "none"
    /\ outcome' = "raised"
    /\ HeaderFrame

InitHeader ==
    /\ page_type_byte \in Bytes
    /\ page_class = "none"
    /\ outcome = "running"
    /\ IdleWalker /\ IdleRecord /\ IdleLayout
    /\ argv = <<>> /\ sqlite_schema = <<>> /\ table_rows = <<>> /\ table = <<>>
    /\ rows = <<>> /\ stdout = <<>> /\ pc = "header"

NextHeader == ParsePageReturns \/ ParsePageRaises

SpecHeader == InitHeader /\ [][NextHeader]_vars

\* C10: page types 2, 5, 10 and 13 decode to the interior-index,
\* interior-table, leaf-index and leaf-table page kinds, and every other
\* page type ends page parsing in a failure with no page object.
C10_PageKinds ==
    (pc = "header" /\ outcome # "running") =>
        /\ page_type_byte = INTERIOR_INDEX =>
             outcome = "returned" /\ page_class = "InteriorIndexBTreePage"
        /\ page_type_byte = INTERIOR_TABLE =>
             outcome = "returned" /\ page_class = "InteriorTableBTreePage"
        /\ page_type_byte = LEAF_INDEX =>
             outcome = "returned" /\ page_class = "LeafIndexBTreePage"
        /\ page_type_byte = LEAF_TABLE =>
             outcome = "returned" /\ page_class = "LeafTableBTreePage"
        /\ page_type_byte \notin {INTERIOR_INDEX, INTERIOR_TABLE, LEAF_INDEX, LEAF_TABLE} =>
             outcome = "raised" /\ page_class = "none"

(***************************************************************************)
(* The record codec (record_parser.py).  A value is NULL, an integer or a  *)
(* byte string.                                                            *)
(***************************************************************************)
NULL == [kind |-> "null", v |-> 0]

\* An integer is held as two limbs <<hi, lo>>, its value hi * 2^16 + lo with
\* 0 <= lo < 2^16, so that every 32-bit pattern has a representation.
Limbs(n) == <<n \div 65536, n % 65536>>

IntValue(n) == [kind |-> "int", v |-> Limbs(n)]

BytesValue(bs) == [kind |-> "bytes", v |-> bs]

Min2(a, b) == IF a <= b THEN a ELSE b

\* stream.read(k) at position pos (bytes consumed so far): at most k bytes,
\* fewer at the end of the stream
Read(s, pos, k) == SubSeq(s, pos + 1, Min2(pos + k, Len(s)))

\* the unsigned big-endian value of at most three bytes
RECURSIVE UnsignedBig(_)
UnsignedBig(bs) ==
    IF bs = <<>> THEN 0
    ELSE UnsignedBig(SubSeq(bs, 1, Len(bs) - 1)) * 256 + bs[Len(bs)]

\* int.from_bytes(bs, "big"), the default signed=False, in limbs
from_bytes_big(bs) ==
    IF Len(bs) <= 2 THEN <<0, UnsignedBig(bs)>>
    ELSE <<UnsignedBig(SubSeq(bs, 1, Len(bs) - 2)), UnsignedBig(SubSeq(bs, Len(bs) - 1, Len(bs)))>>

\* the varint at position pos: 7 bits of each of the first 8 bytes while the
\* high bit is set, all 8 bits of a ninth byte
RECURSIVE VarintFrom(_, _, _, _)
VarintFrom(s, pos, acc, count) ==
    IF pos >= Len(s) THEN [raised |-> TRUE, value |-> 0, position |-> pos]
    ELSE LET b == s[pos + 1] IN
         IF count = 9 THEN [raised |-> FALSE, value |-> acc * 256 + b, position |-> pos + 1]
         ELSE IF b >= 128 THEN VarintFrom(s, pos + 1, acc * 128 + (b - 128), count + 1)
         ELSE [raised |-> FALSE, value |-> acc * 128 + b, position |-> pos + 1]

parse_varint(s, pos) == VarintFrom(s, pos, 0, 1)

\* parse_record_value(stream, serial_type)
parse_record_value(s, pos, serial_type) ==
    IF serial_type >= 13 /\ serial_type % 2 = 1
    THEN LET bs == Read(s, pos, (serial_type - 13) \div 2) IN
         [raised |-> FALSE, value |-> BytesValue(bs), position |-> pos + Len(bs)]
    ELSE IF serial_type >= 12 /\ serial_type % 2 = 0
    THEN LET bs == Read(s, pos, (serial_type - 12) \div 2) IN
         [raised |-> FALSE, value |-> BytesValue(bs), position |-> pos + Len(bs)]
    ELSE IF serial_type = 9
    THEN [raised |-> FALSE, value |-> IntValue(1), position |-> pos]
    ELSE IF serial_type \in {1, 2, 3, 4}
    THEN LET bs == Read(s, pos, serial_type) IN
         [raised |-> FALSE, value |-> [kind |-> "int", v |-> from_bytes_big(bs)],
          position |-> pos + Len(bs)]
    ELSE IF serial_type = 0
    THEN [raised |-> FALSE, value |-> NULL, position |-> pos]
    ELSE [raised |-> TRUE, value |-> NULL, position |-> pos]

\* serial_types = [parse_varint(stream) for _i in range(number_of_values)]
RECURSIVE ReadSerialTypes(_, _, _)
ReadSerialTypes(s, pos, n) ==
    IF n = 0 THEN [raised |-> FALSE, types |-> <<>>, position |-> pos]
    ELSE LET t == parse_varint(s, pos) IN
         IF t.raised THEN [raised |-> TRUE, types |-> <<>>, position |-> t.position]
         ELSE LET rest == ReadSerialTypes(s, t.position, n - 1) IN
              [raised |-> rest.raised, types |-> <<t.value>> \o rest.types,
               position |-> rest.position]

\* [parse_record_value(stream, serial_type) for serial_type in serial_types]
RECURSIVE ReadValues(_, _, _)
ReadValues(s, pos, types) ==
    IF types = <<>> THEN [raised |-> FALSE, values |-> <<>>, position |-> pos]
    ELSE LET x == parse_record_value(s, pos, Head(types)) IN
         IF x.raised THEN [raised |-> TRUE, values |-> <<>>, position |-> x.position]
         ELSE LET rest == ReadValues(s, x.position, Tail(types)) IN
              [raised |-> rest.raised, values |-> <<x.value>> \o rest.values,
               position |-> rest.position]

\* parse_record(stream, number_of_values)
parse_record(s, n) ==
    LET h == parse_varint(s, 0) IN
    IF h.raised THEN [raised |-> TRUE, values |-> <<>>, position |-> h.position]
    ELSE LET ts == ReadSerialTypes(s, h.position, n) IN
         IF ts.raised THEN [raised |-> TRUE, values |-> <<>>, position |-> ts.position]
         ELSE ReadValues(s, ts.position, ts.types)

(***************************************************************************)
(* The records parse_record is run on: a header of one-byte varints, then  *)
(* for each value a first byte b1 and further bytes b2, then two bytes     *)
(* that belong to whatever follows the record.                             *)
(***************************************************************************)
\* the bytes the file format gives a value of this serial type
SerialTypeWidth(serial_type) ==
    IF serial_type >= 13 /\ serial_type % 2 = 1 THEN (serial_type - 13) \div 2
    ELSE IF serial_type >= 12 THEN (serial_type - 12) \div 2
    ELSE IF serial_type \in {1, 2, 3, 4} THEN serial_type
    ELSE 0

SerialTypeSamples == {0, 1, 2, 3, 4, 7, 8, 9, 12, 13, 15, 16}

SupportedSerialType(serial_type) == serial_type \in {0, 1, 2, 3, 4, 8, 9} \/ serial_type >= 12

FirstByteSamples == {0, 127, 128, 255}

OtherByteSamples == {0, 255}

ValueBytes(serial_type, b1, b2) ==
    [i \in 1..SerialTypeWidth(serial_type) |-> IF i = 1 THEN b1 ELSE b2]

EncodeRecord(types, b1, b2) ==
    <<Len(types) + 1>> \o types
    \o Concat([i \in DOMAIN types |-> ValueBytes(types[i], b1, b2)])
    \o <<b2, b2>>

RecordFrame ==
    UNCHANGED <<stream, number_of_values, walkerVars, headerVars, cliVars, layoutVars>>

\* record_parser.py 40: the list of values is returned
ParseRecordReturns ==
    /\ outcome = "running" /\ pc = "record"
    /\ ~parse_record(stream, number_of_values).raised
    /\ values' = parse_record(stream, number_of_values).values
    /\ position' = parse_record(stream, number_of_values).position
    /\ outcome' = "returned"
    /\ RecordFrame

\* record_parser.py 33: Unhandled serial_type
ParseRecordRaises ==
    /\ outcome = "running" /\ pc = "record"
    /\ parse_record(stream, number_of_values).raised
    /\ values' = <<>>
    /\ position' = parse_record(stream, number_of_values).position
    /\ outcome' = "raised"
    /\ RecordFrame

InitRecord ==
    /\ \E types \in SeqsUpTo(SerialTypeSamples, MaxValues),
          b1 \in FirstByteSamples, b2 \in OtherByteSamples :
         /\ stream = EncodeRecord(types, b1, b2)
         /\ number_of_values = Len(types)
    /\ position = 0
    /\ values = <<>>
    /\ outcome = "running"
    /\ IdleWalker /\ IdleHeader /\ IdleLayout
    /\ argv = <<>> /\ sqlite_schema = <<>> /\ table_rows = <<>> /\ table = <<>>
    /\ rows = <<>> /\ stdout = <<>> /\ pc = "record"

NextRecord == ParseRecordReturns \/ ParseRecordRaises

SpecRecord == InitRecord /\ [][NextRecord]_vars

\* the serial types the record declares (one-byte varints after header_size)
DeclaredTypes == [i \in 1..number_of_values |-> stream[1 + i]]

RECURSIVE SumSeq(_)
SumSeq(ns) == IF ns = <<>> THEN 0 ELSE Head(ns) + SumSeq(Tail(ns))

\* where the bytes of value i start, and the bytes themselves
ValueStart(i) ==
    1 + number_of_values + SumSeq([j \in 1..(i - 1) |-> SerialTypeWidth(DeclaredTypes[j])])

BytesOfValue(i) == Read(stream, ValueStart(i), SerialTypeWidth(DeclaredTypes[i]))

\* C8: on a list of n serial types from {0, 1, 2, 3, 4, 8, 9, N >= 12},
\* parse_record returns n values and consumes the header and exactly the
\* bytes the types describe; types 0, 8 and 9 consume nothing, 8 yields 0
\* and 9 yields 1.
C8_DecodeTotal ==
    (pc = "record" /\ outcome # "running"
        /\ \A i \in DOMAIN DeclaredTypes : SupportedSerialType(DeclaredTypes[i])) =>
        /\ outcome = "returned"
        /\ Len(values) = number_of_values
        /\ position = 1 + number_of_values
                      + SumSeq([i \in DOMAIN DeclaredTypes |-> SerialTypeWidth(DeclaredTypes[i])])
        /\ \A i \in DOMAIN DeclaredTypes :
             /\ DeclaredTypes[i] = 8 => values[i] = IntValue(0)
             /\ DeclaredTypes[i] = 9 => values[i] = IntValue(1)

\* big-endian two's complement, in limbs: the unsigned value, less
\* 2^(8 * Len(bs)) when the most significant bit is set
Signed(bs) ==
    IF bs # <<>> /\ bs[1] >= 128
    THEN IF Len(bs) <= 2 THEN Limbs(UnsignedBig(bs) - 2^(8 * Len(bs)))
         ELSE <<from_bytes_big(bs)[1] - 2^(8 * (Len(bs) - 2)), from_bytes_big(bs)[2]>>
    ELSE from_bytes_big(bs)

\* C9: serial types 1, 2, 3 and 4 decode to signed big-endian integers of
\* 8, 16, 24 and 32 bits: negative (value - 2^width) when the most
\* significant bit is set, the unsigned value otherwise.
C9_SignedIntegers ==
    (pc = "record" /\ outcome = "returned") =>
        \A i \in DOMAIN DeclaredTypes :
            DeclaredTypes[i] \in {1, 2, 3, 4} =>
                values[i] = [kind |-> "int", v |-> Signed(BytesOfValue(i))]

(***************************************************************************)
(* parse_record asked for more values than the record's header declares:   *)
(* the header_size varint covers the serial types of EncodeRecord, and the *)
(* caller's column count is larger by extra.                               *)
(***************************************************************************)
\* serial types whose values take at most one byte, so that no varint read
\* from the bytes after the header runs over more than four bytes
ShortHeaderTypeSamples == {0, 1, 8, 9, 13, 15}

InitShortHeader ==
    /\ \E types \in SeqsUpTo(ShortHeaderTypeSamples, MaxValues),
          b1 \in FirstByteSamples, b2 \in OtherByteSamples, extra \in 1..MaxValues :
         /\ stream = EncodeRecord(types, b1, b2)
         /\ number_of_values = Len(types) + extra
    /\ position = 0
    /\ values = <<>>
    /\ outcome = "running"
    /\ IdleWalker /\ IdleHeader /\ IdleLayout
    /\ argv = <<>> /\ sqlite_schema = <<>> /\ table_rows = <<>> /\ table = <<>>
    /\ rows = <<>> /\ stdout = <<>> /\ pc = "record"

SpecShortHeader == InitShortHeader /\ [][NextRecord]_vars

\* the serial-type varints the declared header_size covers (all of one byte)
HeaderTypeCount == stream[1] - 1

\* C11: when the declared header_size covers fewer than number_of_values
\* serial types, parse_record signals a malformed record; it never returns
\* values read with serial types taken from beyond the header.
C11_ShortHeaderSignalled ==
    (pc = "record" /\ outcome # "running" /\ HeaderTypeCount < number_of_values) =>
        outcome = "raised"

(***************************************************************************)
(* The command line (main.py).  Text is a sequence of code points, a byte  *)
(* string a sequence of bytes; names of the schema are kept as strings.    *)
(***************************************************************************)
\* bytes.decode('utf-8') on the byte strings of this model, which hold
\* ASCII bytes or the byte 0xFF (valid in no UTF-8 sequence)
utf8_decode(bs) ==
    IF \A i \in DOMAIN bs : bs[i] < 128
    THEN [raised |-> FALSE, text |-> bs]
    ELSE [raised |-> TRUE, text |-> <<>>]

\* str(n) for an integer n >= 0
RECURSIVE Decimal(_)
Decimal(n) == IF n < 10 THEN <<48 + n>> ELSE Decimal(n \div 10) \o <<48 + (n % 10)>>

\* format_value (main.py 285-292)
format_value(value) ==
    IF value.kind = "null" THEN [raised |-> FALSE, text |-> <<>>]
    ELSE IF value.kind = "int"
    THEN [raised |-> FALSE, text |-> Decimal(value.v[1] * 65536 + value.v[2])]
    ELSE utf8_decode(value.v)

\* "|".join(texts)
RECURSIVE Join(_)
Join(texts) ==
    IF texts = <<>> THEN <<>>
    ELSE IF Len(texts) = 1 THEN texts[1]
    ELSE texts[1] \o <<124>> \o Join(Tail(texts))

\* main.py 295: the line printed for one row, or the exception
FormatRow(row, columns_to_select) ==
    IF \E i \in DOMAIN columns_to_select : columns_to_select[i] \notin DOMAIN row
    THEN [raised |-> TRUE, text |-> <<>>]
    ELSE LET cols == [i \in DOMAIN columns_to_select |-> format_value(row[columns_to_select[i]])] IN
         IF \E i \in DOMAIN cols : cols[i].raised
         THEN [raised |-> TRUE, text |-> <<>>]
         ELSE [raised |-> FALSE, text |-> Join([i \in DOMAIN cols |-> cols[i].text])]

\* value or b""
OrEmptyBytes(value) ==
    IF value.kind = "null" THEN BytesValue(<<>>)
    ELSE IF value.kind = "int" /\ value.v = <<0, 0>> THEN BytesValue(<<>>)
    ELSE value

\* main.py 280: (row[column] or b"").decode('utf-8') == literal
FilterTest(row, clause) ==
    IF clause[1] \notin DOMAIN row THEN [raised |-> TRUE, keep |-> FALSE]
    ELSE LET x == OrEmptyBytes(row[clause[1]]) IN
         IF x.kind = "int" THEN [raised |-> TRUE, keep |-> FALSE]
         ELSE LET d == utf8_decode(x.v) IN
              IF d.raised THEN [raised |-> TRUE, keep |-> FALSE]
              ELSE [raised |-> FALSE, keep |-> d.text = clause[2]]

RECURSIVE SelectKept(_, _)
SelectKept(rs, clause) ==
    IF rs = <<>> THEN <<>>
    ELSE (IF FilterTest(Head(rs), clause).keep THEN <<Head(rs)>> ELSE <<>>)
         \o SelectKept(Tail(rs), clause)

\* main.py 279-280: the loop over filter_clauses
RECURSIVE ApplyFilters(_, _)
ApplyFilters(rs, filter_clauses) ==
    IF filter_clauses = <<>> THEN [raised |-> FALSE, rows |-> rs]
    ELSE IF \E i \in DOMAIN rs : FilterTest(rs[i], Head(filter_clauses)).raised
    THEN [raised |-> TRUE, rows |-> <<>>]
    ELSE ApplyFilters(SelectKept(rs, Head(filter_clauses)), Tail(filter_clauses))

\* str.lower() on the function names of this model
Lower(name) == IF name = "COUNT" THEN "count" ELSE name

\* parse_statement (statement_parser.py 19-61; the same code is inlined in
\* main.py 244-274 and 296-297).  A statement is what sqlparse makes of the
\* text: its type, the name of the function after SELECT ("" when the token
\* is no function), the identifiers, the table name and the comparison of
\* the WHERE clause.
parse_statement(statement) ==
    IF statement.type = "SELECT"
    THEN IF statement.function # ""
         THEN IF Lower(statement.function) = "count"
              THEN [raised |-> FALSE, aggregations |-> <<"COUNT">>, columns_to_select |-> <<>>,
                    filter_clauses |-> statement.where, table_name |-> statement.table_name]
              ELSE [raised |-> TRUE, aggregations |-> <<>>, columns_to_select |-> <<>>,
                    filter_clauses |-> <<>>, table_name |-> ""]
         ELSE [raised |-> FALSE, aggregations |-> <<>>,
               columns_to_select |-> statement.columns,
               filter_clauses |-> statement.where, table_name |-> statement.table_name]
    ELSE [raised |-> TRUE, aggregations |-> <<>>, columns_to_select |-> <<>>,
          filter_clauses |-> <<>>, table_name |-> ""]

\* the test of read_sqlite_schema_records (main.py 192)
NotSequence(row) == row.tbl_name # "sqlite_sequence"

\* read_sqlite_schema_records (main.py 190-192), on the rows the scan of
\* page 1 returns
RECURSIVE read_sqlite_schema_records(_)
read_sqlite_schema_records(schema) ==
    IF schema = <<>> THEN <<>>
    ELSE (IF NotSequence(Head(schema)) THEN <<Head(schema)>> ELSE <<>>)
         \o read_sqlite_schema_records(Tail(schema))

\* the test of read_sqlite_schema_row (main.py 229)
SchemaRowMatches(row, table_name) == row.tbl_name = table_name

\* read_sqlite_schema_row (main.py 227-230): the first row that matches, or None
RECURSIVE FirstMatch(_, _)
FirstMatch(rs, table_name) ==
    IF rs = <<>> THEN [found |-> FALSE, row |-> <<>>]
    ELSE IF SchemaRowMatches(Head(rs), table_name) THEN [found |-> TRUE, row |-> Head(rs)]
    ELSE FirstMatch(Tail(rs), table_name)

read_sqlite_schema_row(schema, table_name) ==
    FirstMatch(read_sqlite_schema_records(schema), table_name)

\* get_table (main.py 233-240); subscripting None raises
get_table(schema, table_name) ==
    LET r == read_sqlite_schema_row(schema, table_name) IN
    IF r.found
    THEN [raised |-> FALSE, name |-> r.row.tbl_name, root_page |-> r.row.rootpage,
          create_table_sql |-> r.row.sql]
    ELSE [raised |-> TRUE, name |-> "", root_page |-> 0, create_table_sql |-> ""]

(***************************************************************************)
(* The files and command lines of the invocations.                         *)
(***************************************************************************)
ApplesTable ==
    [type |-> "table", name |-> "apples", tbl_name |-> "apples", rootpage |-> 2,
     sql |-> "CREATE TABLE apples (id integer primary key, name text, color text)"]

ApplesIndex ==
    [type |-> "index", name |-> "idx_apples_color", tbl_name |-> "apples", rootpage |-> 3,
     sql |-> "CREATE INDEX idx_apples_color on apples (color)"]

OrangesTable ==
    [type |-> "table", name |-> "oranges", tbl_name |-> "oranges", rootpage |-> 4,
     sql |-> "CREATE TABLE oranges (id integer primary key, name text, description text)"]

SequenceTable ==
    [type |-> "table", name |-> "sqlite_sequence", tbl_name |-> "sqlite_sequence",
     rootpage |-> 5, sql |-> "CREATE TABLE sqlite_sequence(name,seq)"]

SchemaRowSamples == {ApplesTable, ApplesIndex, OrangesTable, SequenceTable}

Schemas == DistinctSeqsUpTo(SchemaRowSamples, MaxSchemaRows)

\* rows of apples as parse_table_record builds them: the rowid in place of
\* the primary key; "F", "R", "Y" are ASCII, <<255>> is not UTF-8
AppleRowSamples ==
    {[id |-> IntValue(1), name |-> BytesValue(<<70>>), color |-> BytesValue(<<82>>)],
     [id |-> IntValue(2), name |-> BytesValue(<<255>>), color |-> BytesValue(<<89>>)],
     [id |-> IntValue(3), name |-> NULL, color |-> BytesValue(<<89>>)]}

OrangeRows == <<[id |-> IntValue(1), name |-> BytesValue(<<79>>), description |-> NULL]>>

\* what read_table_rows does from each root page of the file: the root of
\* the index is no table page, so the header parser raises there
TableScans ==
    {[p \in 2..5 |->
        IF p = ApplesTable.rootpage THEN apples
        ELSE IF p = ApplesIndex.rootpage
        THEN [raised |-> ~PageHeaderParses(LEAF_INDEX), rows |-> <<>>]
        ELSE IF p = OrangesTable.rootpage THEN [raised |-> FALSE, rows |-> OrangeRows]
        ELSE [raised |-> FALSE, rows |-> <<>>]] :
     apples \in {[raised |-> FALSE, rows |-> rs] : rs \in SeqsUpTo(AppleRowSamples, MaxRows)}
                \cup {[raised |-> TRUE, rows |-> <<>>]}}

DotCommands == {[kind |-> "dot", text |-> t] : t \in {".dbinfo", ".tables", ".schema"}}

WhereSamples == {<<>>, << <<"color", <<89>> >> >>, << <<"name", <<70>> >> >>, << <<"id", <<49>> >> >>}

Statements ==
    {[kind |-> "sql", type |-> "INSERT", function |-> "", columns |-> <<>>,
      table_name |-> "apples", where |-> <<>>]}
    \cup
    {[kind |-> "sql", type |-> "SELECT", function |-> f, columns |-> <<>>,
      table_name |-> t, where |-> w] :
        f \in {"count", "COUNT", "sum"}, t \in {"apples", "pears"}, w \in WhereSamples}
    \cup
    {[kind |-> "sql", type |-> "SELECT", function |-> "", columns |-> c,
      table_name |-> t, where |-> w] :
        c \in {<<"name">>, <<"id", "name">>, <<"color">>, <<"size">>},
        t \in {"apples", "pears"}, w \in WhereSamples}

(***************************************************************************)
(* The invocation: main.py 300-303.                                        *)
(***************************************************************************)
CliFrame ==
    UNCHANGED <<argv, sqlite_schema, table_rows, walkerVars, headerVars, recordVars, layoutVars>>

AtMain == outcome = "running" /\ pc = "main"

\* handle_dot_command, ".dbinfo" (main.py 219-221)
DotDbinfo ==
    /\ AtMain /\ argv.kind = "dot" /\ argv.text = ".dbinfo"
    /\ stdout' = Append(stdout,
                    <<"number of tables: ", Len(read_sqlite_schema_records(sqlite_schema))>>)
    /\ outcome' = "returned" /\ pc' = "exit"
    /\ UNCHANGED <<table, rows>> /\ CliFrame

\* handle_dot_command, ".tables" (main.py 222-224)
DotTables ==
    /\ AtMain /\ argv.kind = "dot" /\ argv.text = ".tables"
    /\ stdout' = Append(stdout,
                    [i \in DOMAIN read_sqlite_schema_records(sqlite_schema) |->
                        read_sqlite_schema_records(sqlite_schema)[i].tbl_name])
    /\ outcome' = "returned" /\ pc' = "exit"
    /\ UNCHANGED <<table, rows>> /\ CliFrame

\* handle_dot_command on any other text: neither branch runs, the function
\* returns and the program ends
DotOther ==
    /\ AtMain /\ argv.kind = "dot" /\ argv.text \notin {".dbinfo", ".tables"}
    /\ outcome' = "returned" /\ pc' = "exit"
    /\ UNCHANGED <<table, rows, stdout>> /\ CliFrame

\* execute_statement raises while it parses the statement (main.py 260, 297)
StatementRaises ==
    /\ AtMain /\ argv.kind = "sql"
    /\ parse_statement(argv).raised
    /\ outcome' = "raised" /\ pc' = "exit"
    /\ UNCHANGED <<table, rows, stdout>> /\ CliFrame

\* main.py 276: table = get_table(database_file_path, table_name)
ResolveTable ==
    /\ AtMain /\ argv.kind = "sql"
    /\ ~parse_statement(argv).raised
    /\ ~get_table(sqlite_schema, parse_statement(argv).table_name).raised
    /\ table' = get_table(sqlite_schema, parse_statement(argv).table_name)
    /\ pc' = "resolved"
    /\ UNCHANGED <<rows, stdout, outcome>> /\ CliFrame

\* main.py 276: get_table raises (no row of that name)
ResolveTableRaises ==
    /\ AtMain /\ argv.kind = "sql"
    /\ ~parse_statement(argv).raised
    /\ get_table(sqlite_schema, parse_statement(argv).table_name).raised
    /\ outcome' = "raised" /\ pc' = "exit"
    /\ UNCHANGED <<table, rows, stdout>> /\ CliFrame

\* main.py 277-280: the rows of the table, filtered
ScannedAndFiltered ==
    IF table_rows[table.root_page].raised THEN [raised |-> TRUE, rows |-> <<>>]
    ELSE ApplyFilters(table_rows[table.root_page].rows, parse_statement(argv).filter_clauses)

\* main.py 277-280: the scan or a filter raises
ReadRowsRaises ==
    /\ outcome = "running" /\ pc = "resolved"
    /\ ScannedAndFiltered.raised
    /\ outcome' = "raised" /\ pc' = "exit"
    /\ UNCHANGED <<table, rows, stdout>> /\ CliFrame

\* main.py 282-283: print(len(rows))
PrintCount ==
    /\ outcome = "running" /\ pc = "resolved"
    /\ ~ScannedAndFiltered.raised
    /\ parse_statement(argv).aggregations # <<>>
    /\ rows' = ScannedAndFiltered.rows
    /\ stdout' = Append(stdout, <<Len(ScannedAndFiltered.rows)>>)
    /\ outcome' = "returned" /\ pc' = "exit"
    /\ UNCHANGED table /\ CliFrame

\* main.py 284-294: the loop over rows starts
StartPrinting ==
    /\ outcome = "running" /\ pc = "resolved"
    /\ ~ScannedAndFiltered.raised
    /\ parse_statement(argv).aggregations = <<>>
    /\ rows' = ScannedAndFiltered.rows
    /\ pc' = "printing"
    /\ UNCHANGED <<table, stdout, outcome>> /\ CliFrame

\* main.py 294-295: one row is printed; rows holds the rows still to print
PrintRow ==
    /\ outcome = "running" /\ pc = "printing" /\ rows # <<>>
    /\ ~FormatRow(Head(rows), parse_statement(argv).columns_to_select).raised
    /\ stdout' = Append(stdout, FormatRow(Head(rows), parse_statement(argv).columns_to_select).text)
    /\ rows' = Tail(rows)
    /\ UNCHANGED <<table, pc, outcome>> /\ CliFrame

\* main.py 295: formatting a row raises
PrintRowRaises ==
    /\ outcome = "running" /\ pc = "printing" /\ rows # <<>>
    /\ FormatRow(Head(rows), parse_statement(argv).columns_to_select).raised
    /\ outcome' = "raised" /\ pc' = "exit"
    /\ UNCHANGED <<table, rows, stdout>> /\ CliFrame

\* the loop is over and the program ends
PrintDone ==
    /\ outcome = "running" /\ pc = "printing" /\ rows = <<>>
    /\ outcome' = "returned" /\ pc' = "exit"
    /\ UNCHANGED <<table, rows, stdout>> /\ CliFrame

InitCli ==
    /\ argv \in DotCommands \cup Statements
    /\ sqlite_schema \in Schemas
    /\ table_rows \in TableScans
    /\ table = <<>> /\ rows = <<>> /\ stdout = <<>>
    /\ pc = "main"
    /\ outcome = "running"
    /\ IdleWalker /\ IdleHeader /\ IdleRecord /\ IdleLayout

NextCli ==
    \/ DotDbinfo
    \/ DotTables
    \/ DotOther
    \/ StatementRaises
    \/ ResolveTable
    \/ ResolveTableRaises
    \/ ReadRowsRaises
    \/ PrintCount
    \/ StartPrinting
    \/ PrintRow
    \/ PrintRowRaises
    \/ PrintDone

SpecCli == InitCli /\ [][NextCli]_vars

\* the number of schema rows that describe a table other than sqlite_sequence
RECURSIVE CountTables(_)
CountTables(schema) ==
    IF schema = <<>> THEN 0
    ELSE (IF Head(schema).type = "table" /\ Head(schema).tbl_name # "sqlite_sequence"
          THEN 1 ELSE 0) + CountTables(Tail(schema))

\* C3: .dbinfo prints the number of sqlite_schema rows with type "table" and
\* a tbl_name other than "sqlite_sequence", whatever the schema holds.
C3_DbinfoCountsTables ==
    (pc = "exit" /\ argv.kind = "dot" /\ argv.text = ".dbinfo") =>
        stdout = << <<"number of tables: ", CountTables(sqlite_schema)>> >>

\* C4: the table a statement resolves has the root page and the create-text
\* of a schema row with type "table" and the statement's table name, never
\* those of an index row, in whatever order the rows come.
C4_ResolvesTableRow ==
    (pc = "resolved") =>
        \E i \in DOMAIN sqlite_schema :
            /\ sqlite_schema[i].type = "table"
            /\ sqlite_schema[i].tbl_name = parse_statement(argv).table_name
            /\ table.root_page = sqlite_schema[i].rootpage
            /\ table.create_table_sql = sqlite_schema[i].sql

\* the inputs the program does not support
Unsupported(a) ==
    \/ a.kind = "dot" /\ a.text \notin {".dbinfo", ".tables"}
    \/ a.kind = "sql" /\ a.type # "SELECT"
    \/ a.kind = "sql" /\ a.type = "SELECT" /\ a.function # "" /\ Lower(a.function) # "count"

\* C5: an unknown dot command, a statement that is no SELECT and an
\* aggregation other than count all end the invocation in an error, never
\* in success.
C5_UnsupportedFails ==
    (pc = "exit" /\ Unsupported(argv)) => outcome = "raised"

\* C6: an invocation that fails has printed no result line before it failed.
C6_NoPartialResults ==
    (pc = "exit" /\ outcome = "raised") => stdout = <<>>

\* a value as text: bytes UTF-8 decoded, an integer in decimal, NULL empty
RenderedText(value) ==
    IF value.kind = "null" THEN <<>>
    ELSE IF value.kind = "int" THEN Decimal(value.v[1] * 65536 + value.v[2])
    ELSE value.v

\* the rows of rs whose column clause[1], as text, equals the literal clause[2]
RECURSIVE RowsEqualTo(_, _)
RowsEqualTo(rs, clause) ==
    IF rs = <<>> THEN <<>>
    ELSE (IF RenderedText(Head(rs)[clause[1]]) = clause[2] THEN <<Head(rs)>> ELSE <<>>)
         \o RowsEqualTo(Tail(rs), clause)

RECURSIVE RowsPassing(_, _)
RowsPassing(rs, filter_clauses) ==
    IF filter_clauses = <<>> THEN rs
    ELSE RowsPassing(RowsEqualTo(rs, Head(filter_clauses)), Tail(filter_clauses))

\* every byte string of the rows is the UTF-8 encoding of a text
Renderable(rs) ==
    \A i \in DOMAIN rs : \A c \in DOMAIN rs[i] :
        rs[i][c].kind = "bytes" => ~utf8_decode(rs[i][c].v).raised

\* C13: once the rows of the table are read, evaluating the filter clauses
\* never fails, whatever the columns hold (text bytes, an integer such as
\* the rowid standing for the primary key, NULL), and the rows that remain
\* are exactly those whose column, rendered as text, equals the literal.
C13_FilterDecides ==
    [][(pc = "resolved" /\ ~table_rows[table.root_page].raised
            /\ Renderable(table_rows[table.root_page].rows)) =>
            /\ outcome' # "raised"
            /\ rows' = RowsPassing(table_rows[table.root_page].rows,
                                   parse_statement(argv).filter_clauses)]_vars

(***************************************************************************)
(* Index B-trees.  The pages are decoded by pages.py and the entries by    *)
(* parse_index_record (record_parser.py).                                  *)
(***************************************************************************)
parse_index_record_swapped(record_values) ==
    LET first == OrEmptyBytes(record_values[2]) IN
    IF first.kind = "int" THEN [raised |-> TRUE, key |-> <<>>, rowid |-> NULL]
    ELSE [raised |-> utf8_decode(first.v).raised,
          key |-> utf8_decode(first.v).text,
          rowid |-> record_values[1]]

\* parse_index_record (record_parser.py 54-56), on the values parse_record
\* returns: (values[0] or b"").decode('utf-8'), values[1]
parse_index_record(record_values) ==
    LET first == OrEmptyBytes(record_values[1]) IN
    IF first.kind = "int" THEN [raised |-> TRUE, key |-> <<>>, rowid |-> NULL]
    ELSE [raised |-> utf8_decode(first.v).raised,
          key |-> utf8_decode(first.v).text,
          rowid |-> record_values[2]]

\* LeafIndexBTreePage.parse_cells_from (pages.py 179-193)
leaf_index_cells(pg) ==
    [i \in DOMAIN pg.cells |->
        [key |-> parse_index_record(pg.cells[i].record).key,
         rowid |-> parse_index_record(pg.cells[i].record).rowid]]

\* InteriorIndexBTreePage.parse_cells_from (pages.py 142-157)
interior_index_cells(pg) ==
    [i \in DOMAIN pg.cells |->
        [left_child_pointer |-> pg.cells[i].left_child_pointer,
         key |-> parse_index_record(pg.cells[i].record).key,
         rowid |-> parse_index_record(pg.cells[i].record).rowid]]

\* a < b for two texts (code point by code point, a prefix first)
RECURSIVE TextLess(_, _)
TextLess(a, b) ==
    IF b = <<>> THEN FALSE
    ELSE IF a = <<>> THEN TRUE
    ELSE IF Head(a) # Head(b) THEN Head(a) < Head(b)
    ELSE TextLess(Tail(a), Tail(b))

\* The index seek for the text v from page p: the rowids it emits, in the
\* order it emits them.
RECURSIVE index_seek(_, _, _)
RECURSIVE SeekCells(_, _, _, _)
\* after the loop: the right-most pointer, if the last cell's key is <= v
SeekRightMost(f, p, v) ==
    LET cells == interior_index_cells(f[p]) IN
    IF ~TextLess(v, cells[Len(cells)].key)
    THEN index_seek(f, f[p].right_most_pointer, v)
    ELSE <<>>

\* the loop over the cells of interior page p, from cell i on
SeekCells(f, p, i, v) ==
    LET cells == interior_index_cells(f[p]) IN
    IF i > Len(cells) THEN SeekRightMost(f, p, v)
    ELSE IF cells[i].key = v
    THEN <<cells[i].rowid>> \o index_seek(f, cells[i].left_child_pointer, v)
         \o SeekCells(f, p, i + 1, v)
    ELSE IF TextLess(v, cells[i].key)
    THEN index_seek(f, cells[i].left_child_pointer, v) \o SeekRightMost(f, p, v)
    ELSE SeekCells(f, p, i + 1, v)

RECURSIVE EmitMatches(_, _)
EmitMatches(cells, v) ==
    IF cells = <<>> THEN <<>>
    ELSE (IF Head(cells).key = v THEN <<Head(cells).rowid>> ELSE <<>>)
         \o EmitMatches(Tail(cells), v)

index_seek(f, p, v) ==
    IF f[p].page_type = LEAF_INDEX THEN EmitMatches(leaf_index_cells(f[p]), v)
    ELSE SeekCells(f, p, 1, v)

(***************************************************************************)
(* The well-formed index B-trees with at most MaxEntries entries: a tree   *)
(* is first built as a nest of pages with key ordinals (0 the NULL key,    *)
(* then "A" and "B"), every subtree confined between the keys around it,   *)
(* and then laid out on numbered pages.                                    *)
(***************************************************************************)
KeyOrdinals == 0..2

KeyValue(k) == IF k = 0 THEN NULL ELSE BytesValue(<<64 + k>>)

KeyText(k) == IF k = 0 THEN <<>> ELSE <<64 + k>>

NonDecreasingSeqs(lo, hi, n) ==
    {ks \in SeqsUpTo(lo..hi, n) : \A i, j \in DOMAIN ks : i < j => ks[i] <= ks[j]}

RECURSIVE Entries(_)
Entries(t) ==
    Len(t.keys) + SumSeq([i \in DOMAIN t.children |-> Entries(t.children[i])])

RECURSIVE IndexTrees(_, _, _)
RECURSIVE ChildTuples(_, _, _)
\* one child between each two neighbours of limits, from position i on,
\* with at most budget entries in all
ChildTuples(limits, i, budget) ==
    IF i = Len(limits) THEN {<<>>}
    ELSE UNION {{<<c>> \o rest : rest \in ChildTuples(limits, i + 1, budget - Entries(c))} :
                c \in IndexTrees(budget, limits[i], limits[i + 1])}

IndexTrees(budget, lo, hi) ==
    {[keys |-> ks, children |-> <<>>] : ks \in NonDecreasingSeqs(lo, hi, Min2(budget, MaxCells))}
    \cup
    UNION {{[keys |-> ks, children |-> cs] :
                cs \in ChildTuples(<<lo>> \o ks \o <<hi>>, 1, budget - Len(ks))} :
           ks \in {x \in NonDecreasingSeqs(lo, hi, Min2(budget, MaxCells)) : x # <<>>}}

RECURSIVE TreePages(_)
TreePages(t) == 1 + SumSeq([i \in DOMAIN t.children |-> TreePages(t.children[i])])

\* the page number of child j of a tree laid out from page first
ChildPage(t, first, j) ==
    first + 1 + SumSeq([i \in 1..(j - 1) |-> TreePages(t.children[i])])

\* the record of the entry in cell i of page p: the key and a rowid of its own
EntryRecord(k, p, i) == <<KeyValue(k), IntValue(10 * p + i)>>

\* the pages of tree t, the root on page first, the subtrees after it
RECURSIVE Layout(_, _)
Layout(t, first) ==
    IF t.children = <<>>
    THEN <<[page_type |-> LEAF_INDEX,
            cells |-> [i \in DOMAIN t.keys |->
                        [left_child_pointer |-> 0, record |-> EntryRecord(t.keys[i], first, i)]],
            right_most_pointer |-> 0]>>
    ELSE <<[page_type |-> INTERIOR_INDEX,
            cells |-> [i \in DOMAIN t.keys |->
                        [left_child_pointer |-> ChildPage(t, first, i),
                         record |-> EntryRecord(t.keys[i], first, i)]],
            right_most_pointer |-> ChildPage(t, first, Len(t.children))]>>
         \o Concat([j \in DOMAIN t.children |-> Layout(t.children[j], ChildPage(t, first, j))])

IndexFiles == {Layout(t, 1) : t \in IndexTrees(MaxEntries, 0, 2)}

SeekFrame == UNCHANGED <<pages, stack, target, headerVars, recordVars, cliVars, layoutVars>>

\* the seek from the root of the index returns
SeekReturns ==
    /\ outcome = "running" /\ pc = "seek"
    /\ records' = index_seek(pages, ROOT_PAGE, target)
    /\ outcome' = "returned"
    /\ SeekFrame

InitSeek ==
    /\ pages \in IndexFiles
    /\ target \in {KeyText(k) : k \in KeyOrdinals}
    /\ stack = <<>> /\ records = <<>>
    /\ outcome = "running"
    /\ IdleHeader /\ IdleRecord /\ IdleLayout
    /\ argv = <<>> /\ sqlite_schema = <<>> /\ table_rows = <<>> /\ table = <<>>
    /\ rows = <<>> /\ stdout = <<>> /\ pc = "seek"

NextSeek == SeekReturns

SpecSeek == InitSeek /\ [][NextSeek]_vars

\* the key of a stored entry as text (NULL as the empty text), and its rowid
StoredKey(cell) == IF cell.record[1].kind = "null" THEN <<>> ELSE cell.record[1].v

StoredRowid(cell) == cell.record[2]

\* the keys below page p in key order: each left subtree, then its cell
RECURSIVE InOrderKeys(_, _)
InOrderKeys(f, p) ==
    IF f[p].page_type = LEAF_INDEX
    THEN [i \in DOMAIN f[p].cells |-> StoredKey(f[p].cells[i])]
    ELSE Concat([i \in DOMAIN f[p].cells |->
                    InOrderKeys(f, f[p].cells[i].left_child_pointer)
                    \o <<StoredKey(f[p].cells[i])>>])
         \o InOrderKeys(f, f[p].right_most_pointer)

WellFormedIndex(f, p) ==
    LET ks == InOrderKeys(f, p) IN
    \A i \in 1..(Len(ks) - 1) : ~TextLess(ks[i + 1], ks[i])

\* the rowids of the entries of the index whose key is v
MatchingRowids(f, v) ==
    UNION {{StoredRowid(f[p].cells[i]) : i \in {j \in DOMAIN f[p].cells : StoredKey(f[p].cells[j]) = v}} :
           p \in DOMAIN f}

PageSizeSamples == {512, 4096}

\* how far before the end of the page the cell starts
CellBackSamples == {2, 5, 8, 40}

PayloadSamples == {1, 3, 4, 7, 8, 30, 39, 200}

PayloadClasses == {"LeafTableBTreePage", "InteriorIndexBTreePage", "LeafIndexBTreePage"}

\* the page type of a page object of each class
PageTypeOf(class) ==
    IF class = "LeafTableBTreePage" THEN LEAF_TABLE
    ELSE IF class = "InteriorTableBTreePage" THEN INTERIOR_TABLE
    ELSE IF class = "InteriorIndexBTreePage" THEN INTERIOR_INDEX
    ELSE LEAF_INDEX

\* Page.file_header_size: the database header lies at the start of page 1
file_header_size(n) == IF n = 1 THEN 100 ELSE 0

start_index_after_file_header(n, sz) == (n - 1) * sz + file_header_size(n)

\* Page.start_index
start_index(n, sz) == (n - 1) * sz

\* the bytes a varint of value n takes (n below 2^14 here)
VarintLength(n) == IF n < 128 THEN 1 ELSE 2

\* the bytes the decoder reads at the cell before the record: the left-child
\* pointer of an interior-index cell, the payload-size varint, and the rowid
\* varint of a leaf-table cell (a rowid of one byte)
CellFieldsLength(class, payload) ==
    IF class = "LeafTableBTreePage" THEN VarintLength(payload) + 1
    ELSE IF class = "InteriorIndexBTreePage" THEN 4 + VarintLength(payload)
    ELSE VarintLength(payload)

\* the test "cell_pointer + number_of_bytes_in_payload > self.size" of the
\* two index classes; LeafTableBTreePage.parse_records_from has no test
OverflowTest(class, cell_pointer, number_of_bytes_in_payload, sz) ==
    /\ class \in {"InteriorIndexBTreePage", "LeafIndexBTreePage"}
    /\ cell_pointer + number_of_bytes_in_payload > sz

CellFrame ==
    UNCHANGED <<number, page_size, cell_pointers, payload_size, header_size, right_most_read,
                walkerVars, headerVars, recordVars, cliVars>>

\* the seek to the cell and the reads up to the call of parse_table_record
\* or parse_index_record, which decodes the record
DecodeCell ==
    /\ outcome = "running" /\ pc = "cell"
    /\ ~OverflowTest(page_class, cell_pointers[1], payload_size, page_size)
    /\ reads' = Append(reads, [what |-> "cell",
                               at |-> start_index(number, page_size) + cell_pointers[1]])
    /\ file_position' = start_index(number, page_size) + cell_pointers[1]
                        + CellFieldsLength(page_class, payload_size) + payload_size
    /\ outcome' = "returned"
    /\ CellFrame

\* raise Exception("Overflow page!")
RaiseOverflowPage ==
    /\ outcome = "running" /\ pc = "cell"
    /\ OverflowTest(page_class, cell_pointers[1], payload_size, page_size)
    /\ reads' = Append(reads, [what |-> "cell",
                               at |-> start_index(number, page_size) + cell_pointers[1]])
    /\ file_position' = start_index(number, page_size) + cell_pointers[1]
                        + CellFieldsLength(page_class, payload_size)
    /\ outcome' = "raised"
    /\ CellFrame

InitCell ==
    /\ page_class \in PayloadClasses
    /\ page_type_byte = PageTypeOf(page_class)
    /\ number \in PageNumbers
    /\ page_size \in PageSizeSamples
    /\ \E back \in CellBackSamples : cell_pointers = <<page_size - back>>
    /\ payload_size \in PayloadSamples
    /\ file_position = 0 /\ reads = <<>> /\ header_size = 0 /\ right_most_read = FALSE
    /\ outcome = "running"
    /\ IdleWalker /\ IdleRecord
    /\ argv = <<>> /\ sqlite_schema = <<>> /\ table_rows = <<>> /\ table = <<>>
    /\ rows = <<>> /\ stdout = <<>> /\ pc = "cell"

NextCell == DecodeCell \/ RaiseOverflowPage

SpecCell == InitCell /\ [][NextCell]_vars

\* the bytes of the page that remain after the cell's own fields
RemainingOnPage == page_size - cell_pointers[1] - CellFieldsLength(page_class, payload_size)

\* C12: a leaf-table, leaf-index or interior-index cell whose declared
\* payload size exceeds the bytes that remain on the page after the cell's
\* own fields ends in a raised error, and its record is not decoded.
C12_OverflowRaises ==
    (pc = "cell" /\ outcome # "running" /\ payload_size > RemainingOnPage) =>
        outcome = "raised"

(***************************************************************************)
(* LeafTableBTreePage.parse_from and InteriorTableBTreePage.parse_from     *)
(* (pages.py) at byte offsets: the page size is read from the database     *)
(* header, then the page header, the cell-pointer array and each cell.     *)
(* Every read is logged with the offset it was made at.                    *)
(***************************************************************************)
\* the first byte of the page: the four B-tree page types and one other
PageTypeSamples == {INTERIOR_INDEX, INTERIOR_TABLE, LEAF_INDEX, LEAF_TABLE, 0}

CellPointerSamples == {120, 300, 500}

\* where earlier reads may have left database_file
PositionSamples == {0, 18, 777}

\* database_file.seek(offset): the new position, whatever the old one was
seek(position_before, offset) == offset

\* PageHeader.is_leaf_page
is_leaf_page(page_type) == is_leaf_table_btree_page(page_type)

\* PageHeader.size
size(page_type) == IF is_leaf_page(page_type) THEN 8 ELSE 12

\* Page.cell_pointer_array_start_index
cell_pointer_array_start_index(n, sz, page_type) ==
    start_index(n, sz) + file_header_size(n) + size(page_type)

\* the bytes PageHeader.parse_from reads when it returns: 1 + 2 + 2 + 2 + 1,
\* and the 4 of right_most_pointer on an interior-table page
HeaderBytesRead(page_type) == 8 + (IF is_interior_table_btree_page(page_type) THEN 4 ELSE 0)

\* the cells decoded so far
CellsRead == Cardinality({i \in DOMAIN reads : reads[i].what = "cell"})

LayoutFrame ==
    UNCHANGED <<number, page_size, cell_pointers, payload_size, page_type_byte,
                walkerVars, recordVars, argv, sqlite_schema, table_rows, table, rows, stdout>>

\* DatabaseHeader.parse_from: seek(16), read(2)
ReadPageSize ==
    /\ outcome = "running" /\ pc = "page_size"
    /\ reads' = Append(reads, [what |-> "page_size", at |-> seek(file_position, 16)])
    /\ file_position' = seek(file_position, 16) + 2
    /\ pc' = "page_header"
    /\ UNCHANGED <<page_class, header_size, right_most_read, outcome>>
    /\ LayoutFrame

\* pages.py 22-33 with PageHeader.parse_from returning
ParseHeader ==
    /\ outcome = "running" /\ pc = "page_header"
    /\ PageHeaderParses(page_type_byte)
    /\ LET at == seek(file_position, start_index(number, page_size) + file_header_size(number)) IN
         /\ reads' = Append(reads, [what |-> "page_header", at |-> at])
         /\ file_position' = at + HeaderBytesRead(page_type_byte)
    /\ header_size' = size(page_type_byte)
    /\ right_most_read' = is_interior_table_btree_page(page_type_byte)
    /\ page_class' = parse_unknown_type_from(page_type_byte)
    /\ pc' = "cell_pointers"
    /\ UNCHANGED outcome
    /\ LayoutFrame

\* pages.py 22-24 with PageHeader.parse_from raising after the first byte
ParseHeaderRaises ==
    /\ outcome = "running" /\ pc = "page_header"
    /\ ~PageHeaderParses(page_type_byte)
    /\ LET at == seek(file_position, start_index(number, page_size) + file_header_size(number)) IN
         /\ reads' = Append(reads, [what |-> "page_header", at |-> at])
         /\ file_position' = at + 1
    /\ outcome' = "raised"
    /\ UNCHANGED <<page_class, header_size, right_most_read, pc>>
    /\ LayoutFrame

\* Page.read_cell_pointers
ReadCellPointers ==
    /\ outcome = "running" /\ pc = "cell_pointers"
    /\ LET at == seek(file_position,
                      cell_pointer_array_start_index(number, page_size, page_type_byte)) IN
         /\ reads' = Append(reads, [what |-> "cell_pointers", at |-> at])
         /\ file_position' = at + 2 * Len(cell_pointers)
    /\ pc' = "cells"
    /\ UNCHANGED <<page_class, header_size, right_most_read, outcome>>
    /\ LayoutFrame

\* one turn of the loop over cell_pointers: the seek to the cell and the
\* reads of the cell (a left-child pointer and a key on an interior page,
\* two varints and the record on a leaf)
ReadCell ==
    /\ outcome = "running" /\ pc = "cells"
    /\ CellsRead < Len(cell_pointers)
    /\ LET at == seek(file_position,
                      start_index(number, page_size) + cell_pointers[CellsRead + 1]) IN
         /\ reads' = Append(reads, [what |-> "cell", at |-> at])
         /\ file_position' =
                at + (IF is_interior_table_btree_page(page_type_byte) THEN 4 + 1
                      ELSE CellFieldsLength(page_class, payload_size) + payload_size)
    /\ UNCHANGED <<page_class, header_size, right_most_read, pc, outcome>>
    /\ LayoutFrame

\* the loop is over and parse_from returns the page
ReturnPage ==
    /\ outcome = "running" /\ pc = "cells"
    /\ CellsRead = Len(cell_pointers)
    /\ outcome' = "returned"
    /\ UNCHANGED <<page_class, header_size, right_most_read, pc, reads, file_position>>
    /\ LayoutFrame

InitLayout ==
    /\ number \in PageNumbers
    /\ page_size \in PageSizeSamples
    /\ page_type_byte \in PageTypeSamples
    /\ cell_pointers \in SeqsUpTo(CellPointerSamples, MaxCells)
    /\ payload_size = 3
    /\ file_position \in PositionSamples
    /\ reads = <<>> /\ header_size = 0 /\ right_most_read = FALSE
    /\ page_class = "none"
    /\ outcome = "running"
    /\ IdleWalker /\ IdleRecord
    /\ argv = <<>> /\ sqlite_schema = <<>> /\ table_rows = <<>> /\ table = <<>>
    /\ rows = <<>> /\ stdout = <<>> /\ pc = "page_size"

NextLayout ==
    \/ ReadPageSize
    \/ ParseHeader
    \/ ParseHeaderRaises
    \/ ReadCellPointers
    \/ ReadCell
    \/ ReturnPage

SpecLayout == InitLayout /\ [][NextLayout]_vars

\* the header parse is over: it returned or it raised
HeaderParseOver ==
    \/ pc \in {"cell_pointers", "cells"}
    \/ pc = "page_header" /\ outcome = "raised"

\* C14: the header size that locates the cell-pointer array is 8 for page
\* types 13 and 10 and 12 for page types 5 and 2, and the right-most pointer
\* is read exactly for page types 2 and 5.
C14_HeaderSizes ==
    HeaderParseOver =>
        /\ page_type_byte \in {LEAF_TABLE, LEAF_INDEX} =>
             size(page_type_byte) = 8 /\ header_size = 8 /\ ~right_most_read
        /\ page_type_byte \in {INTERIOR_TABLE, INTERIOR_INDEX} =>
             size(page_type_byte) = 12 /\ header_size = 12 /\ right_most_read

\* the offset of the k-th read of a cell
CellReadAt(k) ==
    LET cellReads == SelectSeq(reads, LAMBDA r : r.what = "cell") IN cellReads[k].at

\* the offset the page header was read at
HeaderReadAt ==
    LET headerReads == SelectSeq(reads, LAMBDA r : r.what = "page_header") IN headerReads[1].at

\* C15: for every page number p, page 1 included, the page header is read
\* at (p - 1) * page_size + (100 if p = 1 else 0), the cell-pointer array
\* directly after the header, and the cell of cell pointer c at
\* (p - 1) * page_size + c with no 100 added, wherever earlier reads left
\* the file position.
C15_AbsoluteOffsets ==
    /\ \A i \in DOMAIN reads :
         /\ reads[i].what = "page_size" => reads[i].at = 16
         /\ reads[i].what = "page_header" =>
              reads[i].at = (number - 1) * page_size + (IF number = 1 THEN 100 ELSE 0)
         /\ reads[i].what = "cell_pointers" =>
              reads[i].at = HeaderReadAt
                            + (IF page_type_byte \in {LEAF_TABLE, LEAF_INDEX} THEN 8 ELSE 12)
    /\ \A k \in 1..CellsRead : CellReadAt(k) = (number - 1) * page_size + cell_pointers[k]

C15_Witness ==
    /\ pc = "cells" /\ outcome = "returned"
    /\ number = 1
    /\ Len(cell_pointers) = MaxCells
    /\ CellsRead = MaxCells
    /\ file_position # 0

====
